---- MODULE Spec2Model ----
(***************************************************************************)
(* A model of system/lib/minimalloc.cpp: malloc / free / calloc / realloc  *)
(* over sbrk().  Memory is modelled word by word (4-byte words, 32-bit     *)
(* values), so that headers, free-list links and payload share the same    *)
(* bytes exactly as in the C source.  Each C function is an operator from  *)
(* a machine state (a record) to a machine state; each public entry point  *)
(* is one action.                                                          *)
(*                                                                         *)
(* Request sizes and payload writes are whole words; memcpy and memset    *)
(* therefore move whole words.                                            *)
(***************************************************************************)
EXTENDS Integers, Sequences, FiniteSets, TLC

VARIABLES
  mem,         \* the process memory, one value per 4-byte word
  freeLists,   \* static FreeInfo* freeLists[MAX_FREELIST_INDEX]
  past,        \* the words that follow freeLists in static storage
  lastRegion,  \* static Region* lastRegion
  brk,         \* the program break sbrk() moves
  halt,        \* "run", or how the process ended: "abort" | "undef"
  build,       \* how the file was built (assertions, shifts, static layout)
  live,        \* client side: payload pointer -> size it asked for
  last,        \* client side: the last call, its arguments and its result
  ops          \* number of calls made so far

vars == <<mem, freeLists, past, lastRegion, brk, halt, build, live, last, ops>>

---------------------------------------------------------------------------
\* Bounds of the model

\* The break may not pass this address: sbrk() fails beyond it.
MemLimit == 176

\* Number of public calls in one run.
MaxOps == 4

\* A second, narrower client (two request sizes, no growth failure) runs
\* this many calls.
MaxOpsDeep == 6

---------------------------------------------------------------------------
\* Constants of the program

ALIGNMENT == 16
MIN_ALLOC == ALIGNMENT
METADATA_SIZE == MIN_ALLOC
MIN_REGION_SIZE == METADATA_SIZE + MIN_ALLOC
MIN_FREELIST_INDEX == 4
MAX_FREELIST_INDEX == 32
SPECULATIVE_FREELIST_TRIES == 3

\* 32-bit system (line 6): size_t and pointers are 32 bits wide.
WORD_BITS == 32

\* A 32-bit value v is held as its two's-complement representative in
\* -2^31 .. 2^31 - 1 (v - 2^32 when v >= 2^31): these are exactly the
\* integers of the model checker, which refuses any sum outside the range.
\* Sums and differences of representatives are then the wrapped sums and
\* differences; unsigned comparisons are ULt, ULe, UGe, UGt.
MinInt == -2147483647 - 1
W32(x) == x
ULt(a, b) == IF (a >= 0) = (b >= 0) THEN a < b ELSE b < 0
ULe(a, b) == ~ULt(b, a)
UGt(a, b) == ULt(b, a)
UGe(a, b) == ~ULt(a, b)

NULL == 0
SBRK_FAILED == W32(-1)

---------------------------------------------------------------------------
\* Inputs

\* The lowest address of the modelled memory, where the break starts:
\* memory below it is not the allocator's and is never a valid target.  It
\* is 8 bytes short of alignment, so that the first growth takes the fix-up
\* path (lines 309-324) and leaves the break aligned for the later ones.
MemBase == ALIGNMENT \div 2
InitBrks == {MemBase}

\* Sizes a client asks for.
Sizes == {0, 12, 20, 64}
SizesDeep == {12, 64}

\* calloc's nmemb.
Counts == {4}
CallocSizes == {4}

\* Values a client stores in its payload words.  36 is also the address of
\* a word of the heap.
Patterns == {36}

\* What the environment does to sbrk() during one call: nothing, fail the
\* first request, fail the second (corrective) request, or let another
\* party move the break between the two requests.
Envs == {"ok", "fail1", "fail2", "moved"}
ForeignBump == ALIGNMENT

\* Word addresses of the modelled memory.
Addrs == {a \in MemBase..(MemLimit - 1) : a % 4 = 0}

\* Indices past the end of freeLists that getFreeListIndex can produce for
\* capacities that fit the modelled memory (powers of two >= 32).
PastIdx == {i \in MAX_FREELIST_INDEX..MemLimit : \E k \in 5..30 : i = 2 ^ k}

\* Builds.  An assertion either aborts (assert.h) or is compiled out
\* (NDEBUG).  freeLists[i] with i >= 32 is outside the array: either the
\* words there are spare zero-initialised static storage ("spare"), or the
\* outcome is not modelled and the run ends ("undef").
Builds ==
  {[ndebug |-> FALSE, past |-> "undef"]} \cup
  [ndebug : {TRUE}, past : {"spare", "undef"}]

---------------------------------------------------------------------------
\* Math utilities

RECURSIVE BitLen(_)
BitLen(x) == IF x < 0 THEN WORD_BITS ELSE IF x = 0 THEN 0 ELSE 1 + BitLen(x \div 2)

\* __builtin_clz on a 32-bit value
clz(x) == WORD_BITS - BitLen(x)

\* 1 << k as a 32-bit value
Shl1(k) == IF k = WORD_BITS - 1 THEN MinInt ELSE 2 ^ k

isPowerOf2(x) == x # 0 /\ x = Shl1(BitLen(x) - 1)

upperBoundByPowerOf2(x) ==
  IF x = 0 THEN 1
  ELSE IF isPowerOf2(x) THEN x
  ELSE IF clz(x) = 0 THEN 1 ELSE Shl1(32 - clz(x))

lowerBoundByPowerOf2(x) ==
  IF x = 0 THEN 1
  ELSE IF isPowerOf2(x) THEN x
  ELSE Shl1(31 - clz(x))

\* (ptr + ALIGNMENT - 1) & -ALIGNMENT
alignUp(ptr) ==
  LET t == W32(ptr + ALIGNMENT - 1) IN t - (t % ALIGNMENT)

alignUpPointer(ptr) == alignUp(ptr)

---------------------------------------------------------------------------
\* The machine state the C functions work on.  ret is the value the last
\* function returned; calls and failed count this call's sbrk() requests;
\* env is what the environment does during this call; path records the
\* branches taken.

Machine(env) ==
  [mem |-> mem, fl |-> freeLists, past |-> past, lastRegion |-> lastRegion,
   brk |-> brk, halt |-> halt, ret |-> NULL, calls |-> 0, failed |-> FALSE,
   env |-> env, path |-> {}]

Running(s) == s.halt = "run"

Took(s, tag) == IF Running(s) THEN [s EXCEPT !.path = @ \cup {tag}] ELSE s

Return(s, v) == IF Running(s) THEN [s EXCEPT !.ret = v] ELSE s

\* assert(cond): aborts unless the build defines NDEBUG
assert(s, cond) ==
  IF Running(s) /\ ~build.ndebug /\ ~cond THEN [s EXCEPT !.halt = "abort"] ELSE s

\* An access to n words at p.  Outside the modelled memory the behaviour is
\* undefined and the run ends.
Deref(s, p, n) ==
  IF Running(s) /\ \E k \in 0..(n - 1) : (p + 4 * k) \notin Addrs
  THEN [s EXCEPT !.halt = "undef"] ELSE s

Load(s, a) == IF a \in Addrs THEN s.mem[a] ELSE 0

Store(s, a, v) ==
  IF ~Running(s) THEN s
  ELSE IF a \in Addrs THEN [s EXCEPT !.mem[a] = v]
  ELSE [s EXCEPT !.halt = "undef"]

\* struct Region: totalSize, usedPayload, prev, next, then payload/freeInfo
totalSize(s, region) == Load(s, region)
usedPayload(s, region) == Load(s, region + 4)
prevOf(s, region) == Load(s, region + 8)
nextOf(s, region) == Load(s, region + 12)
\* struct FreeInfo: prev, next
freePrev(s, freeInfo) == Load(s, freeInfo)
freeNext(s, freeInfo) == Load(s, freeInfo + 4)

\* freeLists[i], for any i the code computes
TableDeref(s, i) ==
  IF ~Running(s) \/ ULt(i, MAX_FREELIST_INDEX) THEN s
  ELSE IF build.past = "spare" /\ i \in PastIdx THEN s
  ELSE [s EXCEPT !.halt = "undef"]

TableLoad(s, i) ==
  IF ULt(i, MAX_FREELIST_INDEX) THEN s.fl[i]
  ELSE IF i \in PastIdx THEN s.past[i] ELSE NULL

TableStore(s, i, v) ==
  IF ~Running(s) THEN s
  ELSE IF ULt(i, MAX_FREELIST_INDEX) THEN [s EXCEPT !.fl[i] = v]
  ELSE IF build.past = "spare" /\ i \in PastIdx THEN [s EXCEPT !.past[i] = v]
  ELSE [s EXCEPT !.halt = "undef"]

\* sbrk(n): the old break, or (void*)-1.  The request fails when the
\* environment says so or when the break would pass MemLimit.
sbrk(s, n) ==
  IF ~Running(s) THEN s
  ELSE LET k == s.calls + 1
           refuse == \/ s.env = "fail1" /\ k = 1
                     \/ s.env = "fail2" /\ k = 2
                     \/ s.brk + n > MemLimit
       IN IF refuse
          THEN [s EXCEPT !.calls = k, !.failed = TRUE, !.ret = SBRK_FAILED]
          ELSE [s EXCEPT !.calls = k, !.ret = s.brk, !.brk = s.brk + n]

\* Another user of sbrk() moves the break (only in environment "moved").
ForeignSbrk(s) ==
  IF Running(s) /\ s.env = "moved" /\ s.brk + ForeignBump =< MemLimit
  THEN Took([s EXCEPT !.brk = s.brk + ForeignBump], "foreign") ELSE s

---------------------------------------------------------------------------
\* Statements.  Every C statement is an operator from the state before it
\* to the state after it, and a function body is the chain of its
\* statements.

\* *dst = *src
CopyWord(s, dst, src) == Store(Deref(s, src, 1), dst, Load(s, src))

\* *dst += *src
AddWord(s, dst, src) ==
  Store(Deref(Deref(s, src, 1), dst, 1), dst, W32(Load(s, dst) + Load(s, src)))

---------------------------------------------------------------------------
\* Region utilities

initRegion(s, region, tSize, uPayload) ==
  LET s1 == Store(s, region, tSize)
      s2 == Store(s1, region + 4, uPayload)
      s3 == Store(s2, region + 8, NULL)
  IN Store(s3, region + 12, NULL)

\* getPayload: the state after its assertions, and the pointer
getPayloadChecked(s, region) ==
  assert(Deref(s, region, 2), usedPayload(s, region) # 0)

getPayload(region) == W32(region + METADATA_SIZE)

fromPayload(payload) == W32(payload - METADATA_SIZE)

fromFreeInfo(freeInfo) == W32(freeInfo - METADATA_SIZE)

getMaximumPayloadSize(s, region) == W32(totalSize(s, region) - METADATA_SIZE)

\* getFreeInfo: the state after its assertion, and the pointer
getFreeInfoChecked(s, region) ==
  assert(Deref(s, region, 2), usedPayload(s, region) = 0)

getFreeInfo(region) == W32(region + METADATA_SIZE)

getAfter(s, region) == W32(region + totalSize(s, region))

---------------------------------------------------------------------------
\* Global utilities

\* The value getFreeListIndex returns: the power of two itself.
getFreeListIndex(size) ==
  lowerBoundByPowerOf2(IF ULt(size, MIN_ALLOC) THEN MIN_ALLOC ELSE size)

\* getFreeListIndex: the state after its assertions
getFreeListIndexChecked(s, size) ==
  assert(assert(assert(s, 2 ^ MIN_FREELIST_INDEX = MIN_ALLOC), UGt(size, 0)),
         ULe(MIN_FREELIST_INDEX, getFreeListIndex(size)) /\
         ULt(getFreeListIndex(size), MAX_FREELIST_INDEX))

\* 1 << index, an int shift converted to size_t.  With index >= 32 the
\* shift is undefined: the hardware masks the count or yields 0.
getMinSizeForFreeListIndex(index) ==
  IF ULt(index, WORD_BITS) THEN {Shl1(index)}
  ELSE {Shl1(index % WORD_BITS), 0}

\* Lines 184-186 and 199-201: the assertions on the way to index and
\* freeInfo, and the access to freeLists[index].
FreeListEntry(s, region) ==
  TableDeref(
    getFreeInfoChecked(
      getFreeListIndexChecked(
        assert(Deref(s, region, 6), usedPayload(s, region) # 0),
        getMaximumPayloadSize(s, region)),
      region),
    getFreeListIndex(getMaximumPayloadSize(s, region)))

\* lines 187-189
removeFromFreeList_head(s, index, freeInfo) ==
  IF TableLoad(s, index) = freeInfo
  THEN TableStore(s, index, freeNext(s, freeInfo))
  ELSE s

\* lines 190-192
removeFromFreeList_prev(s, freeInfo) ==
  IF freePrev(s, freeInfo) # NULL
  THEN Store(s, freePrev(s, freeInfo) + 4, freeNext(s, freeInfo))
  ELSE s

\* lines 193-195
removeFromFreeList_next(s, freeInfo) ==
  IF freeNext(s, freeInfo) # NULL
  THEN Store(s, freeNext(s, freeInfo), freePrev(s, freeInfo))
  ELSE s

removeFromFreeList(s, region) ==
  LET index == getFreeListIndex(getMaximumPayloadSize(s, region))
      freeInfo == getFreeInfo(region)
      s1 == FreeListEntry(s, region)
      s2 == removeFromFreeList_head(s1, index, freeInfo)
      s3 == removeFromFreeList_prev(s2, freeInfo)
  IN removeFromFreeList_next(s3, freeInfo)

\* lines 202-205
addToFreeList_push(s, index, freeInfo) ==
  Store(Store(TableStore(s, index, freeInfo), freeInfo, NULL),
        freeInfo + 4, TableLoad(s, index))

addToFreeList(s, region) ==
  addToFreeList_push(FreeListEntry(s, region),
                     getFreeListIndex(getMaximumPayloadSize(s, region)),
                     getFreeInfo(region))

\* lines 216-223
possiblySplitRemainder_split(s, region, size) ==
  LET split == alignUpPointer(W32(getPayload(region) + size))
      totalSplitSize == W32(split - region)
      s1 == getPayloadChecked(s, region)
      s2 == assert(s1, UGe(totalSplitSize, MIN_REGION_SIZE))
      s3 == initRegion(s2, split, totalSplitSize, size)
      s4 == Store(s3, split + 8, region)
      s5 == CopyWord(s4, split + 12, region + 12)
      s6 == Store(s5, region + 12, split)
      s7 == addToFreeList(s6, split)
  IN Took(s7, "split")

\* lines 211-213: the state is the one after line 210
possiblySplitRemainder_extra(s, region, size) ==
  IF ~Running(s) \/
     ULt(W32(getMaximumPayloadSize(s, region) - size), MIN_REGION_SIZE + ALIGNMENT)
  THEN s
  ELSE possiblySplitRemainder_split(s, region, size)

possiblySplitRemainder(s, region, size) ==
  possiblySplitRemainder_extra(
    assert(Deref(s, region, 4), UGe(getMaximumPayloadSize(s, region), size)),
    region, size)

useRegion(s, region, size) ==
  possiblySplitRemainder(
    Store(assert(Deref(s, region, 4), usedPayload(s, region) = 0), region + 4, size),
    region, size)

\* `size` at line 240 is not declared in useFreeInfo; the only binding in
\* the call chain is tryFromFreeList's parameter, which is passed on here.
useFreeInfo(s, freeInfo, size) ==
  Return(useRegion(removeFromFreeList(s, fromFreeInfo(freeInfo)),
                   fromFreeInfo(freeInfo), size),
         fromFreeInfo(freeInfo))

---------------------------------------------------------------------------
\* Free-list search

\* The speculative loop of tryFromFreeList (lines 273-281).  ret is the
\* region used, or NULL when the loop ends without one.
RECURSIVE SpeculativeTries(_, _, _, _)
SpeculativeTries(s, freeInfo, tries, size) ==
  IF ~Running(s) \/ freeInfo = NULL \/ tries >= SPECULATIVE_FREELIST_TRIES
  THEN Return(s, NULL)
  ELSE IF ~Running(Deref(s, fromFreeInfo(freeInfo), 6))
  THEN Deref(s, fromFreeInfo(freeInfo), 6)
  ELSE IF UGe(getMaximumPayloadSize(s, fromFreeInfo(freeInfo)), size)
  THEN Took(useFreeInfo(s, freeInfo, size), "probe")
  ELSE SpeculativeTries(s, freeNext(s, freeInfo), tries + 1, size)

\* The class scan of tryFromFreeList (lines 283-295).
RECURSIVE ScanClasses(_, _, _)
ScanClasses(s, index, size) ==
  IF ~Running(s) \/ UGe(index, MAX_FREELIST_INDEX) THEN Return(s, NULL)
  ELSE IF TableLoad(s, index) # NULL
  THEN Took(useFreeInfo(s, TableLoad(s, index), size), "scan")
  ELSE ScanClasses(s, index + 1, size)

\* lines 269-282.  The outcomes of an undefined shift must agree on the
\* comparison, or the run ends.
tryFromFreeList_speculate(s, index, size) ==
  IF ~Running(s) THEN s
  ELSE IF ~UGt(index, MIN_FREELIST_INDEX) THEN Return(s, NULL)
  ELSE IF \A m \in getMinSizeForFreeListIndex(index) : ~ULt(size, m)
  THEN Return(s, NULL)
  ELSE IF \E m \in getMinSizeForFreeListIndex(index) : ~ULt(size, m)
  THEN [s EXCEPT !.halt = "undef"]
  ELSE SpeculativeTries(TableDeref(s, index - 1), TableLoad(s, index - 1), 0, size)

\* lines 283-295
tryFromFreeList_scan(s, index, size) ==
  IF ~Running(s) \/ s.ret # NULL THEN s ELSE ScanClasses(s, index, size)

tryFromFreeList(s, size) ==
  tryFromFreeList_scan(
    tryFromFreeList_speculate(getFreeListIndexChecked(s, size),
                              getFreeListIndex(size), size),
    getFreeListIndex(size), size)

---------------------------------------------------------------------------
\* Heap growth

sbrkSizeOf(size) == W32(METADATA_SIZE + alignUp(size))

SetLastRegion(s, region) ==
  IF Running(s) THEN [s EXCEPT !.lastRegion = region] ELSE s

\* lines 330-338
newAllocation_link(s, region) ==
  IF ~Running(s) \/ s.lastRegion = NULL THEN SetLastRegion(s, region)
  ELSE IF ~Running(Deref(s, s.lastRegion, 4)) THEN Deref(s, s.lastRegion, 4)
  ELSE IF region = getAfter(s, s.lastRegion)
  THEN SetLastRegion(
         Took(Store(Store(assert(s, nextOf(s, s.lastRegion) = NULL),
                          s.lastRegion + 12, region),
                    region + 8, s.lastRegion), "linked"),
         region)
  ELSE SetLastRegion(s, region)

\* lines 325-339
newAllocation_region(s, region, size) ==
  LET s1 == initRegion(s, region, sbrkSizeOf(size), size)
      s2 == useRegion(s1, region, size)
      s3 == newAllocation_link(s2, region)
  IN Took(Return(s3, region), "grow")

\* A variant of lines 312-325 without the test of the corrective sbrk()
\* at lines 314-317.
newAllocation_fixup_unchecked(s, ptr, size) ==
  IF ~Running(s) THEN s
  ELSE newAllocation_region(Took(s, "fixup"), alignUpPointer(ptr), size)

\* lines 312-325: the state is the one after the second sbrk()
newAllocation_fixup(s, ptr, size) ==
  IF ~Running(s) THEN s
  ELSE IF s.ret = SBRK_FAILED THEN Return(s, NULL)
  ELSE newAllocation_region(
         Took(assert(s, s.ret = W32(ptr + sbrkSizeOf(size))), "fixup"),
         alignUpPointer(ptr), size)

\* lines 302-311: the state is the one after the first sbrk()
newAllocation_first(s, size) ==
  IF ~Running(s) THEN s
  ELSE IF s.ret = SBRK_FAILED THEN Return(s, NULL)
  ELSE IF s.ret = alignUpPointer(s.ret) THEN newAllocation_region(s, s.ret, size)
  ELSE newAllocation_fixup(
         sbrk(ForeignSbrk(s), W32(alignUpPointer(s.ret) - s.ret)), s.ret, size)

newAllocation(s, size) ==
  newAllocation_first(sbrk(assert(s, UGt(size, 0)), sbrkSizeOf(size)), size)

---------------------------------------------------------------------------
\* Coalescing

\* lines 353-355 and 362-364: remove next from its list, add its size to
\* the survivor, unlink it
Absorb(s, into, next) ==
  LET s1 == removeFromFreeList(s, next)
      s2 == AddWord(s1, into, next)
  IN CopyWord(s2, into + 12, next + 12)

\* lines 352-356
mergeLeft_next(s, prev, next) ==
  IF ~Running(s) THEN s
  ELSE IF next = NULL THEN Took(s, "mergeLeft")
  ELSE IF ~Running(Deref(s, next, 4)) THEN Deref(s, next, 4)
  ELSE IF usedPayload(s, next) = 0 THEN Took(Absorb(s, prev, next), "mergeBoth")
  ELSE Took(s, "mergeLeft")

\* lines 348-358
mergeLeft(s, region, prev, next) ==
  LET s1 == removeFromFreeList(s, prev)
      s2 == AddWord(s1, prev, region)
      s3 == CopyWord(s2, prev + 12, region + 12)
      s4 == mergeLeft_next(s3, prev, next)
      s5 == addToFreeList(s4, prev)
  IN Return(s5, 1)

\* lines 360-368
mergeRight(s, region, next) ==
  IF ~Running(s) THEN s
  ELSE IF next = NULL THEN Return(s, 0)
  ELSE IF ~Running(Deref(s, next, 4)) THEN Deref(s, next, 4)
  ELSE IF usedPayload(s, next) = 0
  THEN Took(Return(addToFreeList(Absorb(s, region, next), region), 1), "mergeRight")
  ELSE Return(s, 0)

\* lines 346-368: prev and next are the values read at lines 344-345
mergeInto_branch(s, region, prev, next) ==
  IF ~Running(s) THEN s
  ELSE IF prev # NULL /\ ~Running(Deref(s, prev, 4)) THEN Deref(s, prev, 4)
  ELSE IF prev # NULL /\ usedPayload(s, prev) = 0 THEN mergeLeft(s, region, prev, next)
  ELSE mergeRight(s, region, next)

\* ret is what the C function returns: 1 when it merged, else 0
mergeIntoExistingFreeRegion(s, region) ==
  mergeInto_branch(Deref(s, region, 4), region, prevOf(s, region), nextOf(s, region))

---------------------------------------------------------------------------
\* libc

InRange(a, ptr, n) == ptr =< a /\ a < ptr + n

\* the n bytes at ptr are words of the modelled memory; a count of 2^31 or
\* more runs off it
InMemory(ptr, n) ==
  /\ n >= 0
  /\ ptr % 4 = 0
  /\ n = 0 \/ (ptr \in Addrs /\ ptr + n - 1 < MemLimit)

\* memset(ptr, 0, n)
memset0(s, ptr, n) ==
  IF ~Running(s) THEN s
  ELSE IF ~InMemory(ptr, n) THEN [s EXCEPT !.halt = "undef"]
  ELSE [s EXCEPT !.mem = [a \in Addrs |-> IF InRange(a, ptr, n) THEN 0 ELSE @[a]]]

memcpy(s, dst, src, n) ==
  IF ~Running(s) THEN s
  ELSE IF ~InMemory(dst, n) \/ ~InMemory(src, n) THEN [s EXCEPT !.halt = "undef"]
  ELSE [s EXCEPT !.mem = [a \in Addrs |->
          IF InRange(a, dst, n) THEN @[src + (a - dst)] ELSE @[a]]]

---------------------------------------------------------------------------
\* public API

\* lines 379-386
malloc_grow(s, size) ==
  IF Running(s) /\ s.ret = NULL THEN newAllocation(s, size) ELSE s

\* line 387 (and the return at line 384)
malloc_payload(s) ==
  IF ~Running(s) \/ s.ret = NULL THEN s
  ELSE Return(getPayloadChecked(s, s.ret), getPayload(s.ret))

\* A variant of lines 375-388 without the test of line 376.
malloc_without_zero_test(s, size) ==
  IF ~Running(s) THEN s
  ELSE malloc_payload(malloc_grow(tryFromFreeList(s, size), size))

malloc(s, size) ==
  IF ~Running(s) THEN s
  ELSE IF size = 0 THEN Return(s, NULL)
  ELSE malloc_payload(malloc_grow(tryFromFreeList(s, size), size))

\* lines 395-398
free_add(s, region) ==
  IF Running(s) /\ s.ret = 0 THEN addToFreeList(s, region) ELSE s

free(s, ptr) ==
  IF ~Running(s) \/ ptr = NULL THEN s
  ELSE free_add(
         mergeIntoExistingFreeRegion(Store(s, fromPayload(ptr) + 4, 0), fromPayload(ptr)),
         fromPayload(ptr))

\* lines 405-407
calloc_zero(s, size) ==
  IF ~Running(s) \/ s.ret = NULL THEN s
  ELSE Return(memset0(s, s.ret, size), s.ret)

calloc(s, nmemb, size) == calloc_zero(malloc(s, size), size)

\* A variant of lines 447-450 that releases the old allocation before it
\* looks at what malloc returned.
realloc_copy_release_first(s, ptr, region) ==
  IF ~Running(s) THEN s
  ELSE IF s.ret = NULL THEN Return(free(s, ptr), NULL)
  ELSE Return(
         free(memcpy(getPayloadChecked(s, region), s.ret, getPayload(region),
                     usedPayload(s, region)),
              ptr),
         s.ret)

\* lines 447-450: the state is the one after malloc(size)
realloc_copy(s, ptr, region) ==
  IF ~Running(s) \/ s.ret = NULL THEN s
  ELSE Return(
         free(memcpy(getPayloadChecked(s, region), s.ret, getPayload(region),
                     usedPayload(s, region)),
              ptr),
         s.ret)

\* lines 439-443
realloc_absorb(s, ptr, region, next, size) ==
  LET s1 == AddWord(s, region, next)
      s2 == Store(s1, region + 4, size)
      s3 == CopyWord(s2, region + 12, next + 12)
      s4 == removeFromFreeList(s3, next)
  IN Took(Return(s4, ptr), "absorb")

\* lines 436-450
realloc_grow(s, ptr, region, next, size) ==
  IF next # NULL /\ ~Running(Deref(s, next, 2)) THEN Deref(s, next, 2)
  ELSE IF next # NULL /\ usedPayload(s, next) = 0 /\
          ULe(size, W32(getMaximumPayloadSize(s, region) + totalSize(s, next)))
  THEN realloc_absorb(s, ptr, region, next, size)
  ELSE realloc_copy(Took(malloc(s, size), "slow"), ptr, region)

\* lines 416-450
realloc_region(s, ptr, region, size) ==
  IF ~Running(s) THEN s
  ELSE IF size = usedPayload(s, region) THEN Took(Return(s, ptr), "same")
  ELSE IF ULt(size, usedPayload(s, region))
  THEN Took(Return(possiblySplitRemainder(Store(s, region + 4, size), region, size),
                   ptr), "shrink")
  ELSE IF ULe(size, getMaximumPayloadSize(s, region))
  THEN Took(Return(Store(s, region + 4, size), ptr), "inplace")
  ELSE realloc_grow(s, ptr, region, nextOf(s, region), size)

realloc(s, ptr, size) ==
  IF ~Running(s) THEN s
  ELSE IF ptr = NULL THEN malloc(s, size)
  ELSE IF size = 0 THEN Return(free(s, ptr), NULL)
  ELSE realloc_region(Deref(s, fromPayload(ptr), 4), ptr, fromPayload(ptr), size)

---------------------------------------------------------------------------
\* The client and the actions

NoCall ==
  [op |-> "none", ptr |-> NULL, size |-> 0, nmemb |-> 0, ret |-> NULL,
   calls |-> 0, failed |-> FALSE, path |-> {}]

Call(op, ptr, nmemb, size, r) ==
  [op |-> op, ptr |-> ptr, size |-> size, nmemb |-> nmemb,
   ret |-> IF Running(r) THEN r.ret ELSE NULL,
   calls |-> r.calls, failed |-> r.failed, path |-> r.path]

LiveAdd(l, p, size) == [x \in DOMAIN l \cup {p} |-> IF x = p THEN size ELSE l[x]]
LiveDel(l, p) == [x \in DOMAIN l \ {p} |-> l[x]]

\* The call's effect on the process
Commit(r) ==
  /\ mem' = r.mem
  /\ freeLists' = r.fl
  /\ past' = r.past
  /\ lastRegion' = r.lastRegion
  /\ brk' = r.brk
  /\ halt' = r.halt
  /\ ops' = ops + 1
  /\ UNCHANGED build

Init ==
  /\ mem = [a \in Addrs |-> 0]
  /\ freeLists = [i \in 0..(MAX_FREELIST_INDEX - 1) |-> NULL]
  /\ past = [i \in PastIdx |-> NULL]
  /\ lastRegion = NULL
  /\ brk \in InitBrks
  /\ halt = "run"
  /\ build \in Builds
  /\ live = [x \in {} |-> 0]
  /\ last = NoCall
  /\ ops = 0

Malloc(size, env) ==
  /\ halt = "run"
  /\ LET r == malloc(Machine(env), size)
     IN /\ Commit(r)
        /\ last' = Call("malloc", NULL, 0, size, r)
        /\ live' = IF Running(r) /\ r.ret # NULL THEN LiveAdd(live, r.ret, size) ELSE live

Free(ptr) ==
  /\ halt = "run"
  /\ LET r == free(Machine("ok"), ptr)
     IN /\ Commit(r)
        /\ last' = [Call("free", ptr, 0, 0, r) EXCEPT !.ret = NULL]
        /\ live' = IF ptr \in DOMAIN live THEN LiveDel(live, ptr) ELSE live

Calloc(nmemb, size, env) ==
  /\ halt = "run"
  /\ LET r == calloc(Machine(env), nmemb, size)
     IN /\ Commit(r)
        /\ last' = Call("calloc", NULL, nmemb, size, r)
        /\ live' = IF Running(r) /\ r.ret # NULL
                   THEN LiveAdd(live, r.ret, nmemb * size) ELSE live

Realloc(ptr, size, env) ==
  /\ halt = "run"
  /\ LET r == realloc(Machine(env), ptr, size)
     IN /\ Commit(r)
        /\ last' = Call("realloc", ptr, 0, size, r)
        /\ live' = IF ~Running(r) THEN live
                   ELSE IF r.ret # NULL
                   THEN LiveAdd(IF ptr # NULL THEN LiveDel(live, ptr) ELSE live, r.ret, size)
                   ELSE IF ptr # NULL /\ size = 0 THEN LiveDel(live, ptr)
                   ELSE live

\* The client fills an allocation it holds, all the bytes it asked for.
Write(ptr, v) ==
  /\ halt = "run"
  /\ ptr \in DOMAIN live
  /\ InMemory(ptr, live[ptr])
  /\ \E a \in Addrs : InRange(a, ptr, live[ptr]) /\ mem[a] # v
  /\ mem' = [a \in Addrs |-> IF InRange(a, ptr, live[ptr]) THEN v ELSE mem[a]]
  /\ last' = [NoCall EXCEPT !.op = "write", !.ptr = ptr]
  /\ ops' = ops + 1
  /\ UNCHANGED <<freeLists, past, lastRegion, brk, halt, build, live>>

Held == DOMAIN live \cup {NULL}

\* An environment that differs from "ok" only at the second sbrk() request
\* is of interest only when the break is not aligned.
EnvsNow == IF brk % ALIGNMENT = 0 THEN {"ok", "fail1"} ELSE Envs

DoMalloc ==
  /\ ops < MaxOps
  /\ \E size \in Sizes, env \in EnvsNow : Malloc(size, env)

DoFree ==
  /\ ops < MaxOps
  /\ \E ptr \in Held : Free(ptr)

DoCalloc ==
  /\ ops < MaxOps
  /\ \E nmemb \in Counts, size \in CallocSizes, env \in EnvsNow : Calloc(nmemb, size, env)

DoRealloc ==
  /\ ops < MaxOps
  /\ \E ptr \in Held, size \in Sizes, env \in EnvsNow : Realloc(ptr, size, env)

DoWrite ==
  /\ ops < MaxOps
  /\ \E ptr \in DOMAIN live, v \in Patterns : Write(ptr, v)

Next == DoMalloc \/ DoFree \/ DoCalloc \/ DoRealloc \/ DoWrite

Spec == Init /\ [][Next]_vars

---------------------------------------------------------------------------
\* A second client, for longer runs: an NDEBUG build with spare words past
\* the table, two request sizes, sbrk() never refused by the environment.

InitDeep ==
  /\ Init
  /\ build = [ndebug |-> TRUE, past |-> "spare"]

DeepMalloc ==
  /\ ops < MaxOpsDeep
  /\ \E size \in SizesDeep : Malloc(size, "ok")

DeepFree ==
  /\ ops < MaxOpsDeep
  /\ \E ptr \in DOMAIN live : Free(ptr)

DeepRealloc ==
  /\ ops < MaxOpsDeep
  /\ \E ptr \in DOMAIN live, size \in SizesDeep : Realloc(ptr, size, "ok")

DeepWrite ==
  /\ ops < MaxOpsDeep
  /\ \E ptr \in DOMAIN live, v \in Patterns : Write(ptr, v)

NextDeep == DeepMalloc \/ DeepFree \/ DeepRealloc \/ DeepWrite

SpecDeep == InitDeep /\ [][NextDeep]_vars

---------------------------------------------------------------------------
\* Properties.  They read the process state after a call and the record of
\* that call (last).

\* The word at address a, as the client or a debugger would read it.
Word(a) == IF a \in Addrs THEN mem[a] ELSE 0

\* The call recorded in last returned to its caller with a payload.
Returned(op) == halt = "run" /\ last.op = op /\ last.ret # NULL

\* Capacity of the Region that owns payload p: totalSize minus the header.
CapacityOf(p) == Word(p - METADATA_SIZE) - METADATA_SIZE

\* C1: every successful malloc(size), size > 0, returns a payload whose
\* Region has capacity (totalSize - 16) >= size, whether the Region came from
\* the free lists or from heap growth.
C1_CapacityCoversSize ==
  (Returned("malloc") /\ last.size > 0) => CapacityOf(last.ret) >= last.size

\* The payload ranges of the allocations the client holds do not overlap.
LiveDisjoint ==
  \A p, q \in DOMAIN live :
    p # q => (p + live[p] <= q \/ q + live[q] <= p)

\* The allocation at p is the same after the step as before it: the sizes
\* in its header (totalSize, usedPayload) and its payload words.  The
\* neighbour links of the header follow the heap as it grows and are not
\* part of this.
Untouched(p) ==
  \A a \in Addrs :
    (InRange(a, p - METADATA_SIZE, 8) \/ InRange(a, p, live[p])) => mem'[a] = mem[a]

\* C2: the payload ranges of any two live allocations are disjoint, and a
\* malloc never changes the header or the payload bytes of another live
\* allocation.
C2_LiveAllocationsKept ==
  [][halt' = "run" =>
       /\ LiveDisjoint'
       /\ last'.op = "malloc" => \A p \in DOMAIN live : Untouched(p)]_vars

\* The first Region of the heap when sbrk() is never refused: the aligned
\* initial break (lines 306-325).
FirstRegion == alignUpPointer(MemBase)

\* The Regions of the heap in address order: each one starts where the one
\* before it ends (getAfter, lines 137-139), up to the break.
RECURSIVE RegionsFrom(_)
RegionsFrom(r) ==
  IF r \notin Addrs \/ r >= brk \/ Word(r) < MIN_REGION_SIZE THEN {}
  ELSE {r} \cup RegionsFrom(r + Word(r))

IsFree(r) == Word(r + 4) = 0

\* C3: once a public operation has completed, no two physically adjacent
\* Regions are both free (usedPayload == 0).
C3_NoAdjacentFree ==
  halt = "run" =>
    \A r \in RegionsFrom(FirstRegion) :
      (r + Word(r)) \in RegionsFrom(FirstRegion) => ~(IsFree(r) /\ IsFree(r + Word(r)))

\* C4: under contract-respecting use no call reaches a failing assertion or
\* abort, except the contiguity check of the alignment fix-up in a call
\* during which another party moved the break.
C4_NoAbort == halt = "abort" => "foreign" \in last.path

\* C5: every non-null address returned by malloc, realloc or calloc is a
\* multiple of 16.
C5_ReturnsAligned ==
  (halt = "run" /\ last.op \in {"malloc", "realloc", "calloc"} /\ last.ret # NULL)
    => last.ret % ALIGNMENT = 0

\* The allocator's state and the memory are the same after the step as
\* before it: every Region header and link, every payload, the free-list
\* table (and the words after it), the heap frontier, what the client holds.
StateKept ==
  /\ mem' = mem
  /\ freeLists' = freeLists
  /\ past' = past
  /\ lastRegion' = lastRegion
  /\ live' = live

\* C6: when a growth request (the main one or the corrective one) fails
\* during malloc, malloc returns null, no Region is created, and Regions,
\* headers, links, free-list table, heap frontier and live contents are
\* exactly as before the call.
C6_FailedGrowthKeepsState ==
  [][(last'.op = "malloc" /\ last'.failed /\ halt' = "run")
       => (last'.ret = NULL /\ StateKept)]_vars

\* C6 witness: a malloc whose growth request failed has returned while the
\* client holds an allocation and the heap has a frontier.
C6_Witness ==
  /\ halt = "run" /\ last.op = "malloc" /\ last.size > 0 /\ last.failed
  /\ DOMAIN live # {} /\ lastRegion # NULL

\* C7: when realloc(p, size) takes the malloc-copy-free path and the
\* allocation fails, realloc returns null and the original allocation is
\* untouched: its header (totalSize, usedPayload, links) and its contents
\* are the same words as before, the free lists are the same lists as
\* before (the call files it nowhere), and it is still the client's.
C7_FailedReallocKeepsOriginal ==
  [][(last'.op = "realloc" /\ last'.ptr # NULL /\ last'.size > 0 /\
      last'.failed /\ halt' = "run")
       => /\ last'.ret = NULL
          /\ "slow" \in last'.path
          /\ StateKept
          /\ last'.ptr \in DOMAIN live']_vars

\* C7 witness: a realloc of a live allocation has returned null from the
\* malloc-copy-free path after a refused growth request.
C7_Witness ==
  /\ halt = "run" /\ last.op = "realloc" /\ last.failed /\ last.ret = NULL
  /\ "slow" \in last.path /\ last.ptr \in DOMAIN live /\ last.size > live[last.ptr]

\* The call took its Region from the free lists (speculative probe or
\* class scan).
FromFreeList == last.path \cap {"probe", "scan"} # {}

\* C8: malloc(size) returns null if and only if size == 0 or one of its
\* growth requests failed; malloc(0) makes no growth request; a malloc that
\* takes a free Region returns non-null without any growth request.
C8_NullIffZeroOrFailedGrowth ==
  (halt = "run" /\ last.op = "malloc") =>
    /\ (last.ret = NULL) <=> (last.size = 0 \/ last.failed)
    /\ last.size = 0 => last.calls = 0
    /\ FromFreeList => (last.ret # NULL /\ last.calls = 0)

\* C8 witness: a malloc has been served from the free lists, with no
\* growth request.
C8_Witness ==
  /\ halt = "run" /\ last.op = "malloc" /\ last.size > 0
  /\ FromFreeList /\ last.ret # NULL /\ last.calls = 0

Min(a, b) == IF a <= b THEN a ELSE b

\* C9: after a successful realloc(p, size), p non-null and size > 0, the
\* first min(old usedPayload, size) payload bytes at the returned address
\* are the bytes that were at p before the call.
C9_ReallocKeepsContents ==
  [][(last'.op = "realloc" /\ last'.ptr \in DOMAIN live /\ last'.size > 0 /\
      last'.ret # NULL /\ halt' = "run")
       => \A k \in 0..(MemLimit - 1) :
            (k % 4 = 0 /\ k < Min(Word(last'.ptr - 12), last'.size))
              => (/\ (last'.ret + k) \in Addrs
                  /\ mem'[last'.ret + k] = Word(last'.ptr + k))]_vars

\* The n bytes at p are zero.
Zeroed(p, n) == \A a \in Addrs : InRange(a, p, n) => mem[a] = 0

\* C10: a successful calloc(nmemb, size) returns an allocation of
\* nmemb * size bytes: usedPayload and capacity cover the product and every
\* one of those bytes is zero.
C10_CallocCoversProduct ==
  Returned("calloc") =>
    /\ Word(last.ret - 12) >= last.nmemb * last.size
    /\ CapacityOf(last.ret) >= last.nmemb * last.size
    /\ Zeroed(last.ret, last.nmemb * last.size)

\* The size given to the request of lines 300-301 for the larger size of
\* the second client: when the break stands exactly this far past the first
\* Region, the heap was grown once, as one Region of that size.
OneBigRegion == FirstRegion + sbrkSizeOf(64)

\* C11: when a Region was split and both parts have been released, the
\* result is one free Region with the capacity the Region had before the
\* split.  Stated on the heap that was grown once (one Region, split or
\* not): once the client has released everything it holds, the heap is that
\* one Region again, free, with its original totalSize.
C11_SplitThenReleaseRestores ==
  (halt = "run" /\ last.op = "free" /\ live = << >> /\ brk = OneBigRegion)
    => /\ Word(FirstRegion) = sbrkSizeOf(64)
       /\ IsFree(FirstRegion)

\* The FreeInfo at p is the head of a free list after the step (a Region
\* just filed is the head of its list, lines 202-205).
FiledAfter(p) ==
  \/ \E i \in DOMAIN freeLists : freeLists'[i] = p
  \/ \E i \in DOMAIN past : past'[i] = p

\* The step split Region r, committed for size bytes, as the split policy
\* says: the new Region sits at the aligned address past the committed
\* payload, is free, is filed, is linked after r, and the two totalSizes
\* add up to the totalSize r had.
SplitAsSpecified(r, size) ==
  LET split == alignUpPointer(getPayload(r) + size)
  IN /\ split \in Addrs
     /\ mem'[split + 4] = 0
     /\ FiledAfter(getPayload(split))
     /\ mem'[r + 12] = split
     /\ mem'[split + 8] = r
     /\ mem'[r] + mem'[split] = mem[r]

\* C12: split policy.  When a Region is committed for size bytes and
\* capacity - size >= MIN_REGION_SIZE + ALIGNMENT, a new free Region is
\* created as SplitAsSpecified says; when the remainder is smaller no Region
\* is created and totalSize is unchanged.  Stated for the Region of a
\* shrinking realloc and for the Region a malloc takes from the free lists.
C12_SplitPolicy ==
  [][(halt' = "run" /\ last'.ret # NULL /\
      \/ last'.op = "realloc" /\ "shrink" \in last'.path
      \/ last'.op = "malloc" /\ last'.path \cap {"probe", "scan"} # {})
       => LET r == fromPayload(last'.ret)
          IN IF Word(r) - METADATA_SIZE - last'.size >= MIN_REGION_SIZE + ALIGNMENT
             THEN "split" \in last'.path /\ SplitAsSpecified(r, last'.size)
             ELSE "split" \notin last'.path /\ mem'[r] = mem[r]]_vars

\* More FreeInfo nodes than the modelled memory can hold: a list walked
\* this far has a cycle.
ChainFuel == (MemLimit \div ALIGNMENT) + 1

\* The FreeInfo nodes of the list that starts at f, in memory m, following
\* the next links (FreeInfo::next, line 75).
RECURSIVE Chain(_, _, _)
Chain(m, f, n) ==
  IF f = NULL \/ f \notin Addrs \/ (f + 4) \notin Addrs \/ n = 0 THEN <<>>
  ELSE <<f>> \o Chain(m, m[f + 4], n - 1)

\* How many times f occurs in the sequence c.
Occurrences(c, f) == Cardinality({k \in DOMAIN c : c[k] = f})

\* The heads of every list: the table fl and the words pa after it.
Heads(fl, pa) ==
  [i \in DOMAIN fl \cup DOMAIN pa |-> IF i \in DOMAIN fl THEN fl[i] ELSE pa[i]]

\* How many times the FreeInfo f occurs in the lists whose heads are
\* heads[i], i in S.
RECURSIVE FiledIn(_, _, _, _)
FiledIn(m, heads, S, f) ==
  IF S = {} THEN 0
  ELSE LET i == CHOOSE x \in S : TRUE
       IN Occurrences(Chain(m, heads[i], ChainFuel), f) + FiledIn(m, heads, S \ {i}, f)

\* How many times the FreeInfo f is filed, over every list.
TimesFiled(m, fl, pa, f) ==
  FiledIn(m, Heads(fl, pa), {i \in DOMAIN fl \cup DOMAIN pa : Heads(fl, pa)[i] # NULL}, f)

\* The size class of a capacity: the exponent of the power of two that
\* lower-bounds it.
ClassOf(capacity) == BitLen(capacity) - 1

\* The Region free(p) works on, its neighbours by the links of its header,
\* and whether they are free, before the step.
Released == fromPayload(last'.ptr)
LeftFree == Word(Released + 8) # NULL /\ IsFree(Word(Released + 8))
RightFree == Word(Released + 12) # NULL /\ IsFree(Word(Released + 12))
Survivor == IF LeftFree THEN Word(Released + 8) ELSE Released
Absorbed ==
  (IF LeftFree THEN {Released} ELSE {}) \cup
  (IF RightFree THEN {Word(Released + 12)} ELSE {})

RECURSIVE TotalSizes(_)
TotalSizes(S) ==
  IF S = {} THEN 0
  ELSE LET r == CHOOSE x \in S : TRUE IN Word(r) + TotalSizes(S \ {r})

\* C13: free(p) with a free neighbour: afterwards the survivor's totalSize
\* is the sum of the totalSizes of the released Region and of every
\* absorbed neighbour, each absorbed Region is in no free list, and the
\* survivor is filed exactly once, in the class of its new capacity.
C13_ReleaseCoalesces ==
  [][(halt' = "run" /\ last'.op = "free" /\ last'.ptr \in DOMAIN live /\
      (LeftFree \/ RightFree))
       => /\ mem'[Survivor] = Word(Survivor) + TotalSizes(Absorbed)
          /\ \A a \in Absorbed :
               TimesFiled(mem', freeLists', past', getPayload(a)) = 0
          /\ TimesFiled(mem', freeLists', past', getPayload(Survivor)) = 1
          /\ Occurrences(
               Chain(mem', Heads(freeLists', past')[ClassOf(mem'[Survivor] - METADATA_SIZE)],
                     ChainFuel),
               getPayload(Survivor)) = 1]_vars

\* The FreeInfo nodes filed under index i.
FiledUnder(i) == Chain(mem, Heads(freeLists, past)[i], ChainFuel)

\* C14: every Region filed under index K has 2^K <= capacity < 2^(K+1),
\* with MIN_FREELIST_INDEX <= K < MAX_FREELIST_INDEX: the index is the
\* exponent of the power of two that lower-bounds the capacity and lies
\* inside the table.
C14_FiledInOwnClass ==
  halt = "run" =>
    \A i \in DOMAIN freeLists \cup DOMAIN past :
      \A k \in DOMAIN FiledUnder(i) :
        /\ MIN_FREELIST_INDEX <= i /\ i < MAX_FREELIST_INDEX
        /\ ClassOf(CapacityOf(FiledUnder(i)[k])) = i

\* The FreeInfo f is the head of a list / among the first
\* SPECULATIVE_FREELIST_TRIES entries of a list, before the step.
WasHead(f) == \E i \in DOMAIN freeLists \cup DOMAIN past : Heads(freeLists, past)[i] = f
WasNearHead(f) ==
  \E i \in DOMAIN freeLists \cup DOMAIN past :
    \E k \in DOMAIN FiledUnder(i) :
      k <= SPECULATIVE_FREELIST_TRIES /\ FiledUnder(i)[k] = f

\* C15: search order of malloc(size).  A probe of the next-lower class
\* happens only when size is not a power of two; it looks at no more than
\* 3 entries from the head and uses the first one with capacity >= size.
\* Otherwise the classes are scanned upwards from the class that correctly
\* bounds the request, whose members all hold size bytes, and the head of
\* the first non-empty one is taken.
C15_SearchOrder ==
  [][(halt' = "run" /\ last'.op = "malloc" /\ last'.ret # NULL)
       => /\ "probe" \in last'.path =>
               /\ ~isPowerOf2(last'.size)
               /\ WasNearHead(last'.ret)
               /\ CapacityOf(last'.ret) >= last'.size
          /\ "scan" \in last'.path =>
               /\ WasHead(last'.ret)
               /\ CapacityOf(last'.ret) >= last'.size]_vars

\* The Region realloc(p, size) works on and its right neighbour by the next
\* link, before the step.
Resized == fromPayload(last'.ptr)
RightOfResized == Word(Resized + 12)

\* realloc(p, size) can grow by absorbing the right neighbour: size exceeds
\* the capacity, the neighbour is free, and the two together suffice.
CanAbsorb ==
  /\ last'.size > Word(Resized) - METADATA_SIZE
  /\ RightOfResized # NULL /\ IsFree(RightOfResized)
  /\ last'.size <= Word(Resized) - METADATA_SIZE + Word(RightOfResized)

\* After the step no Region of the heap names r as its prev or next.
OutOfChainAfter(r) ==
  \A a \in Addrs :
    (a % ALIGNMENT = 0 /\ a # r /\ a < brk /\ mem'[a] >= MIN_REGION_SIZE)
      => (mem'[a + 8] # r /\ mem'[a + 12] # r)

\* C16: realloc(p, size) that can absorb the free right neighbour returns p
\* with no growth request and no data movement; afterwards totalSize has
\* grown by the neighbour's totalSize, usedPayload is size, and the absorbed
\* neighbour is in no free list and no longer in the neighbour chain.
C16_ReallocAbsorbsRight ==
  [][(halt' = "run" /\ last'.op = "realloc" /\ last'.ptr \in DOMAIN live /\
      last'.size > 0 /\ CanAbsorb)
       => /\ last'.ret = last'.ptr
          /\ last'.calls = 0
          /\ \A a \in Addrs : InRange(a, last'.ptr, live[last'.ptr]) => mem'[a] = mem[a]
          /\ mem'[Resized] = Word(Resized) + Word(RightOfResized)
          /\ mem'[Resized + 4] = last'.size
          /\ TimesFiled(mem', freeLists', past', getPayload(RightOfResized)) = 0
          /\ OutOfChainAfter(RightOfResized)]_vars

\* C17: the heap frontier, when non-null after a public operation, is a
\* Region that still exists (it was not absorbed: the walk of the heap in
\* address order meets it) and is the highest-address Region, with
\* next == NULL.
C17_FrontierIsLastRegion ==
  (halt = "run" /\ lastRegion # NULL) =>
    /\ lastRegion \in RegionsFrom(FirstRegion)
    /\ \A r \in RegionsFrom(FirstRegion) : r <= lastRegion
    /\ Word(lastRegion + 12) = NULL

\* The Regions of the heap in memory m, following the next links from r
\* (Region::next, line 87).
RECURSIVE NextChain(_, _, _)
NextChain(m, r, n) ==
  IF r = NULL \/ r \notin Addrs \/ (r + 12) \notin Addrs \/ n = 0 THEN {}
  ELSE {r} \cup NextChain(m, m[r + 12], n - 1)

\* The existing Regions of a heap with memory m and frontier lr: the
\* neighbour chain that starts at the first Region.  A heap whose first
\* growth lost its leading bytes to a failed alignment request (lines
\* 320-327) begins elsewhere and is left out.
RegionsOf(m, lr) ==
  IF lr = NULL \/ m[FirstRegion] = 0 THEN {} ELSE NextChain(m, FirstRegion, ChainFuel)

\* The existing Regions before and after the step.
RegionsBefore == RegionsOf(mem, lastRegion)
RegionsAfter == RegionsOf(mem', lastRegion')

PublicOps == {"malloc", "free", "calloc", "realloc"}
Absorbing == {"mergeLeft", "mergeRight", "mergeBoth", "absorb"}

\* C18: across every public operation a Region that continues to exist
\* never has its totalSize decreased, the split step included; totalSize
\* changes only in an operation that absorbs a neighbour, and a Region
\* ceases to exist only in such an operation.
C18_TotalSizeNeverShrinks ==
  [][(halt' = "run" /\ last'.op \in PublicOps)
       => /\ \A r \in RegionsBefore \cap RegionsAfter :
               /\ mem'[r] >= mem[r]
               /\ mem'[r] # mem[r] => last'.path \cap Absorbing # {}
          /\ RegionsBefore \ RegionsAfter # {} => last'.path \cap Absorbing # {}]_vars

\* The existing Regions of the current state: the neighbour chain from the
\* first Region.
Existing == RegionsOf(mem, lastRegion)

\* The heap begins at the first Region's address, or is still empty.
HeapAtBase == lastRegion = NULL \/ mem[FirstRegion] # 0

\* The FreeInfo nodes reachable from some free-list head.
Filed ==
  UNION {{Chain(mem, Heads(freeLists, past)[i], ChainFuel)[k] :
            k \in DOMAIN Chain(mem, Heads(freeLists, past)[i], ChainFuel)} :
         i \in {j \in DOMAIN freeLists \cup DOMAIN past : Heads(freeLists, past)[j] # NULL}}

\* C19: at the end of every public operation a Region is reachable from a
\* free-list head if and only if it exists and is free (usedPayload == 0),
\* and every free Region is reachable exactly once: no Region of a live
\* allocation and no absorbed Region is left in a free list.
C19_FiledIffFree ==
  (halt = "run" /\ HeapAtBase) =>
    /\ \A f \in Filed : fromFreeInfo(f) \in Existing /\ IsFree(fromFreeInfo(f))
    /\ \A r \in Existing :
         IsFree(r) => TimesFiled(mem, freeLists, past, getFreeInfo(r)) = 1

\* C20: at the end of every public operation the physical-neighbour links
\* are consistent: the next of an existing Region r starts exactly at
\* r + r.totalSize and names r as its prev; the prev of an existing Region
\* is an existing Region that names it as its next.
C20_NeighbourLinksConsistent ==
  (halt = "run" /\ HeapAtBase) =>
    \A r \in Existing :
      /\ Word(r + 12) # NULL =>
           /\ Word(r + 12) = r + Word(r)
           /\ Word(Word(r + 12) + 8) = r
      /\ Word(r + 8) # NULL =>
           /\ Word(r + 8) \in Existing
           /\ Word(Word(r + 8) + 12) = r

====
